---- MODULE Spec2Model ----
(***************************************************************************)
(* A model of lds (src/lds.go): the directory reader (readDir), its        *)
(* hand-written quicksort (quickSort / partition), the recursive tree      *)
(* printer (printTree / printNode) and the loop of main over the roots.    *)
(*                                                                         *)
(* Strings are sequences of code points (46 = '.', 65..90 = 'A'..'Z',      *)
(* 97..122 = 'a'..'z'), compared byte-wise as Go compares strings.  A      *)
(* prefix string is the sequence of the three-character glyphs it is       *)
(* built from.  A path is the sequence of its components.  Go's slices     *)
(* are 0-based, the sequences here 1-based: quickSort(s, 0, len(s)-1)      *)
(* is quickSort(s, 1, Len(s)).                                             *)
(***************************************************************************)
EXTENDS Integers, Sequences, FiniteSets, TLC

VARIABLES
    \* ---- the directory reader on its own (SpecSort) ----
    sListing,   \* what f.Readdir(0) returned: FileInfos in the directory's order
    sHidden,    \* the showHidden argument
    sResult,    \* per value of reverse: what readDir returned, once it ran
    sAgain,     \* per value of reverse: quickSort run again on that result
    \* ---- the tree walk (Spec) ----
    bTarget,    \* the filesystem: target of the symlink r/b
    eTarget,    \* the filesystem: target of the symlink r/B/e
    unreadable, \* the filesystem: the directories that cannot be opened
    dirOrder,   \* the order in which Readdir delivers a directory's entries
    opts,       \* Options, set once from the arguments
    roots,      \* the paths of the command line
    rootIdx,    \* main's loop variable i (1-based)
    stack,      \* the active printTree calls, outermost first
    out,        \* the lines written to standard output
    warnings,   \* the warnings logged to standard error
    pc          \* "main" | "walk" | "done" | "overflow"

sortVars == <<sListing, sHidden, sResult, sAgain>>
walkVars == <<bTarget, eTarget, unreadable, dirOrder, opts, roots, rootIdx,
              stack, out, warnings, pc>>
vars == <<sortVars, walkVars>>

----------------------------------------------------------------------------
(* Bounds *)

\* most entries in a directory listing handed to readDir in SpecSort
MaxEntries == 3
\* most paths on the command line
MaxRoots == 2
\* nesting of printTree calls at which the walk is cut off (the Go runtime
\* aborts a goroutine whose stack outgrows its limit; the limit is scaled down)
MaxDepth == 4

----------------------------------------------------------------------------
(* Strings *)

Last(s) == s[Len(s)]
Front(s) == SubSeq(s, 1, Len(s) - 1)
Reverse(s) == [i \in 1..Len(s) |-> s[Len(s) + 1 - i]]
Range(s) == {s[i] : i \in 1..Len(s)}

\* unicode.ToLower on the letters of the model's alphabet
ToLowerChar(c) == IF c >= 65 /\ c <= 90 THEN c + 32 ELSE c

\* strings.ToLower
ToLower(s) == [i \in 1..Len(s) |-> ToLowerChar(s[i])]

\* Go's < on strings: byte-wise lexicographic, a proper prefix is smaller
StrLess(a, b) ==
    \E k \in 1..(Len(a) + 1) :
        /\ k <= Len(b)
        /\ \A i \in 1..(k - 1) : a[i] = b[i]
        /\ (k = Len(a) + 1 \/ a[k] < b[k])

\* strings.HasPrefix(name, ".")
HasPrefixDot(name) == Len(name) >= 1 /\ name[1] = 46

----------------------------------------------------------------------------
(* The directory reader: filter, comparator, quicksort *)

\* readDir's loop over the entries: dotfiles are dropped unless showHidden
RECURSIVE filterHidden(_, _)
\* a filter that tests for a dot anywhere in the name
RECURSIVE filterAnyDot(_, _)
filterAnyDot(entries, showHidden) ==
    IF entries = <<>> THEN <<>>
    ELSE LET e == Head(entries)
             rest == filterAnyDot(Tail(entries), showHidden)
         IN IF ~showHidden /\ 46 \in Range(e.name) THEN rest ELSE <<e>> \o rest

filterHidden(entries, showHidden) ==
    IF entries = <<>> THEN <<>>
    ELSE LET e == Head(entries)
             rest == filterHidden(Tail(entries), showHidden)
         IN IF ~showHidden /\ HasPrefixDot(e.name) THEN rest ELSE <<e>> \o rest

\* a comparator that forgets to fold the case
lessRaw(filtered, reverse, i, j) ==
    IF reverse THEN StrLess(filtered[j].name, filtered[i].name)
    ELSE StrLess(filtered[i].name, filtered[j].name)

\* the closure less of readDir
less(filtered, reverse, i, j) ==
    IF reverse
    THEN StrLess(ToLower(filtered[j].name), ToLower(filtered[i].name))
    ELSE StrLess(ToLower(filtered[i].name), ToLower(filtered[j].name))

Swap(s, i, j) == [s EXCEPT ![i] = s[j], ![j] = s[i]]

\* partition's loop, from j on; the result is the slice and the pivot's place
RECURSIVE partitionLoop(_, _, _, _, _)
partitionLoop(entries, i, j, high, reverse) ==
    IF j >= high THEN [entries |-> Swap(entries, i, high), p |-> i]
    ELSE IF less(entries, reverse, j, high)
         THEN partitionLoop(Swap(entries, i, j), i + 1, j + 1, high, reverse)
         ELSE partitionLoop(entries, i, j + 1, high, reverse)

partition(entries, low, high, reverse) ==
    partitionLoop(entries, low, low, high, reverse)

RECURSIVE quickSort(_, _, _, _)
quickSort(entries, low, high, reverse) ==
    IF low < high
    THEN LET r == partition(entries, low, high, reverse)
         IN quickSort(quickSort(r.entries, low, r.p - 1, reverse),
                      r.p + 1, high, reverse)
    ELSE entries

\* a listing that is filtered and left in directory order
readDirUnsorted(entries, showHidden, reverse) ==
    filterHidden(entries, showHidden)

\* readDir after the listing was read: filter, then sort in place
readDirOf(entries, showHidden, reverse) ==
    LET filtered == filterHidden(entries, showHidden)
    IN quickSort(filtered, 1, Len(filtered), reverse)

----------------------------------------------------------------------------
(* SpecSort: readDir and quickSort on every small listing *)

\* the names a listing is drawn from: ".h" "a" "A" "B" "b." "ab"
SortNames == {<<46, 104>>, <<97>>, <<65>>, <<66>>, <<98, 46>>, <<97, 98>>}

FileOf(dir, name) == [name |-> name, kind |-> "file", node |-> Append(dir, name)]

\* the listings of a directory: its names are distinct, their order is any
Listings ==
    {s \in UNION {[1..n -> {FileOf(<<>>, nm) : nm \in SortNames}] : n \in 0..MaxEntries} :
        \A i, j \in 1..Len(s) : i # j => s[i] # s[j]}

NotRun == [done |-> FALSE, entries |-> <<>>]

\* the walk's variables stand still while the reader is examined
WalkIdle ==
    /\ bTarget = <<>> /\ eTarget = <<>> /\ unreadable = {} /\ dirOrder = "up"
    /\ opts = [showHidden |-> FALSE, longFormat |-> FALSE, reverse |-> FALSE,
               derefLinks |-> FALSE, noSymlink |-> FALSE, maxDepth |-> 0]
    /\ roots = <<>> /\ rootIdx = 1 /\ stack = <<>> /\ out = <<>>
    /\ warnings = <<>> /\ pc = "idle"

InitSort ==
    /\ sListing \in Listings
    /\ sHidden \in BOOLEAN
    /\ sResult = [r \in BOOLEAN |-> NotRun]
    /\ sAgain = [r \in BOOLEAN |-> NotRun]
    /\ WalkIdle

\* readDir(path, sHidden, reverse) on the directory whose listing is sListing
ReadDirCall(reverse) ==
    /\ ~sResult[reverse].done
    /\ sResult' = [sResult EXCEPT ![reverse] =
            [done |-> TRUE, entries |-> readDirOf(sListing, sHidden, reverse)]]
    /\ UNCHANGED <<sListing, sHidden, sAgain, walkVars>>

\* quickSort with the same comparator on what readDir returned
SortAgain(reverse) ==
    /\ sResult[reverse].done
    /\ ~sAgain[reverse].done
    /\ sAgain' = [sAgain EXCEPT ![reverse] =
            [done |-> TRUE,
             entries |-> quickSort(sResult[reverse].entries, 1,
                                   Len(sResult[reverse].entries), reverse)]]
    /\ UNCHANGED <<sListing, sHidden, sResult, walkVars>>

NextSort ==
    \/ \E reverse \in BOOLEAN : ReadDirCall(reverse)
    \/ \E reverse \in BOOLEAN : SortAgain(reverse)

SpecSort == InitSort /\ [][NextSort]_vars

----------------------------------------------------------------------------
(* The filesystem the walk runs on *)

\* the glyphs (ASCII stand-ins: branch is U+2570 U+2500 ' ', pipe is U+2502
\* and two spaces, tee is U+251C U+2500 ' ')
branch == "+- "
pipe == "|  "
tee == "|- "
space == "   "

nR == <<114>>       \* "r"
nM == <<109>>       \* "m"
nH == <<46, 104>>   \* ".h"
nA == <<97>>        \* "a"
nB == <<66>>        \* "B"
nLb == <<98>>       \* "b"
nD == <<68>>        \* "D"
nC == <<99>>        \* "c"
nE == <<101>>       \* "e"
nF == <<102>>       \* "f"

\*   r/            directory
\*     .h          file
\*     a           file
\*     B/          directory, unreadable in some filesystems
\*       c         file
\*       e         symlink -> eTarget
\*     b           symlink -> bTarget
\*     D/          directory
\*       f         file
\*   (m and r/m do not exist)
pR == <<nR>>
pM == <<nM>>
pH == <<nR, nH>>
pA == <<nR, nA>>
pB == <<nR, nB>>
pLb == <<nR, nLb>>
pD == <<nR, nD>>
pC == <<nR, nB, nC>>
pE == <<nR, nB, nE>>
pF == <<nR, nD, nF>>
pBroken == <<nR, nM>>

Nodes == {pR, pH, pA, pB, pLb, pD, pC, pE, pF}
Dirs == {pR, pB, pD}
Links == {pLb, pE}

Kind(p) == IF p \in Dirs THEN "dir" ELSE IF p \in Links THEN "link" ELSE "file"

\* the FileInfo of a node; node stands for its mode bits, size and times
InfoOf(p) == [name |-> Last(p), kind |-> Kind(p), node |-> p]

\* os.Readlink
Readlink(p) == IF p = pLb THEN bTarget ELSE eTarget

\* os.Lstat: the node itself, a symlink is not followed
Lstat(path) ==
    IF path \in Nodes THEN [err |-> FALSE, info |-> InfoOf(path)]
    ELSE [err |-> TRUE, info |-> InfoOf(path)]

\* filepath.EvalSymlinks on a path whose last component may be a symlink:
\* the chain is followed to its end; a missing target or a cycle is an error
RECURSIVE FollowLinks(_, _)
FollowLinks(path, seen) ==
    IF path \notin Nodes \/ path \in seen THEN [err |-> TRUE, path |-> path]
    ELSE IF Kind(path) = "link" THEN FollowLinks(Readlink(path), seen \cup {path})
    ELSE [err |-> FALSE, path |-> path]

EvalSymlinks(path) == FollowLinks(path, {})

\* a set of FileInfos as a sequence, by raw name
RECURSIVE ByName(_)
ByName(S) ==
    IF S = {} THEN <<>>
    ELSE LET m == CHOOSE x \in S : \A y \in S \ {x} : StrLess(x.name, y.name)
         IN <<m>> \o ByName(S \ {m})

\* f.Readdir(0): the directory's entries in directory order
Readdir(path) ==
    LET s == ByName({InfoOf(p) : p \in {q \in Nodes : Len(q) = Len(path) + 1
                                                    /\ Front(q) = path}})
    IN IF dirOrder = "up" THEN s ELSE Reverse(s)

\* readDir: os.Open follows a symlink and fails on a missing or unreadable
\* path, Readdir fails on what is not a directory
readDir(path, showHidden, reverse) ==
    LET t == EvalSymlinks(path)
    IN IF t.err \/ t.path \in unreadable \/ Kind(t.path) # "dir"
       THEN [err |-> TRUE, entries |-> <<>>]
       ELSE [err |-> FALSE,
             entries |-> readDirOf(Readdir(t.path), showHidden, reverse)]

----------------------------------------------------------------------------
(* printNode and printTree *)

\* printNode: the line it writes.  cols is the node whose mode, size and
\* time fill the long-format columns (<<>>: none are printed); dirent, the
\* directory entry the line was printed for, is kept for the record only.
printNode(name, info, o, prefix, isRoot, linkTarget, isSymlink, dirent) ==
    LET arrow == IF isSymlink /\ linkTarget # <<>> /\ ~o.noSymlink /\ ~o.derefLinks
                 THEN linkTarget ELSE <<>>
        style == IF info.kind = "dir" THEN "dir"
                 ELSE IF HasPrefixDot(name) THEN "hidden"
                 ELSE IF isSymlink THEN "link"
                 ELSE "file"
    IN [kind |-> IF isRoot THEN "root" ELSE "entry",
        prefix |-> IF isRoot THEN <<>> ELSE prefix,
        name |-> name,
        arrow |-> arrow,
        style |-> style,
        cols |-> IF ~isRoot /\ o.longFormat THEN info.node ELSE <<>>,
        info |-> info.node,
        dirent |-> dirent]

\* fmt.Println() and fmt.Println(root + ":") of main
BlankLine ==
    [kind |-> "blank", prefix |-> <<>>, name |-> <<>>, arrow |-> <<>>,
     style |-> "", cols |-> <<>>, info |-> <<>>, dirent |-> <<>>]

HeaderLine(root) == [BlankLine EXCEPT !.kind = "header", !.name = root]

\* the symlink handling of printTree's loop body
resolveEntry(path, listed, o) ==
    LET entryPath == Append(path, listed.name)
        entryIsSymlink == listed.kind = "link"
        plain == [entry |-> listed, entryPath |-> entryPath,
                  entryIsSymlink |-> entryIsSymlink, linkTarget |-> <<>>]
    IN IF entryIsSymlink /\ o.derefLinks
       THEN LET t == EvalSymlinks(entryPath)
            IN IF ~t.err
               THEN [entry |-> InfoOf(t.path), entryPath |-> t.path,
                     entryIsSymlink |-> FALSE, linkTarget |-> <<>>]
               ELSE plain
       ELSE IF entryIsSymlink /\ ~o.noSymlink
            THEN [plain EXCEPT !.linkTarget = Readlink(entryPath)]
            ELSE plain

\* a glyph choice with the two cases exchanged
linePrefixSwapped(prefix, isLast) ==
    IF isLast THEN Append(prefix, tee) ELSE Append(prefix, branch)

\* the glyph of a child's line
linePrefixOf(prefix, isLast) ==
    IF isLast THEN Append(prefix, branch) ELSE Append(prefix, tee)

\* the prefix handed to a child directory's subtree
newPrefixOf(prefix, isLast) ==
    IF isLast THEN Append(prefix, space) ELSE Append(prefix, pipe)

\* the head of printTree: Lstat, then readDir; either error is returned
\* before anything is printed
printTreeHead(path, o) ==
    LET st == Lstat(path)
        rd == readDir(path, o.showHidden, o.reverse)
    IN IF st.err THEN [err |-> TRUE, info |-> st.info, entries |-> <<>>]
       ELSE [err |-> rd.err, info |-> st.info, entries |-> rd.entries]

Frame(path, prefix, entries) ==
    [path |-> path, prefix |-> prefix, entries |-> entries, i |-> 1]

Top == stack[Len(stack)]

\* a main that gives up at the first root it cannot list
rootFailedFatal(root) ==
    /\ warnings' = Append(warnings, [by |-> "main", path |-> root])
    /\ rootIdx' = Len(roots) + 1
    /\ UNCHANGED <<stack, pc>>

\* what main does when printTree returns an error for a root: the warning
\* is logged and the loop goes on with the next root
rootFailed(root) ==
    /\ warnings' = Append(warnings, [by |-> "main", path |-> root])
    /\ rootIdx' = rootIdx + 1
    /\ UNCHANGED <<stack, pc>>

\* a printTree that returns its child's error instead of logging it
childFailedReturn(entryPath) ==
    IF Len(stack) = 1
    THEN /\ warnings' = Append(warnings, [by |-> "main", path |-> Top.path])
         /\ stack' = <<>>
         /\ pc' = "main"
         /\ rootIdx' = rootIdx + 1
    ELSE /\ warnings' = Append(warnings, [by |-> "printTree", path |-> Top.path])
         /\ stack' = [Front(stack) EXCEPT ![Len(stack) - 1].i = @ + 1]
         /\ UNCHANGED <<pc, rootIdx>>

\* what a failed printTree on a child directory does to the caller's loop:
\* the warning is logged and the loop goes on with the next entry
childFailed(entryPath) ==
    /\ warnings' = Append(warnings, [by |-> "printTree", path |-> entryPath])
    /\ stack' = [stack EXCEPT ![Len(stack)].i = Top.i + 1]
    /\ UNCHANGED <<pc, rootIdx>>

----------------------------------------------------------------------------
(* Spec: main's loop over the roots and the recursive walk *)

LinkTargetsB == {pD, pR, pE}
LinkTargetsE == {pB, pLb, pBroken}
RootChoices == {pR, pM, pB}

\* the command lines: up to MaxRoots different paths, in any order
RootLists ==
    {s \in UNION {[1..n -> RootChoices] : n \in 1..MaxRoots} :
        \A i, j \in 1..Len(s) : i # j => s[i] # s[j]}

Flags == [showHidden : BOOLEAN, longFormat : BOOLEAN, reverse : BOOLEAN,
          derefLinks : BOOLEAN, noSymlink : BOOLEAN, maxDepth : {0}]

SortIdle ==
    /\ sListing = <<>> /\ sHidden = FALSE
    /\ sResult = [r \in BOOLEAN |-> NotRun]
    /\ sAgain = [r \in BOOLEAN |-> NotRun]

Init ==
    /\ bTarget \in LinkTargetsB
    /\ eTarget \in LinkTargetsE
    /\ unreadable \in {{}, {pB}}
    /\ dirOrder \in {"up", "down"}
    /\ opts \in Flags
    /\ roots \in RootLists
    /\ rootIdx = 1
    /\ stack = <<>>
    /\ out = <<>>
    /\ warnings = <<>>
    /\ pc = "main"
    /\ SortIdle

fsVars == <<bTarget, eTarget, unreadable, dirOrder, opts, roots>>

\* one iteration of main's loop up to the return of printTree's head
\* (the roots of the model are paths whose base name is not ".", so the
\* root line shows filepath.Base(root))
MainRoot ==
    /\ pc = "main"
    /\ rootIdx <= Len(roots)
    /\ LET root == roots[rootIdx]
           hdr == IF Len(roots) > 1
                  THEN (IF rootIdx > 1 THEN <<BlankLine>> ELSE <<>>)
                       \o <<HeaderLine(root)>>
                  ELSE <<>>
           h == printTreeHead(root, opts)
       IN IF h.err
          THEN /\ out' = out \o hdr
               /\ rootFailed(root)
          ELSE /\ out' = out \o hdr \o
                    <<printNode(Last(root), h.info, opts, <<>>, TRUE, <<>>, FALSE, root)>>
               /\ stack' = <<Frame(root, <<>>, h.entries)>>
               /\ pc' = "walk"
               /\ UNCHANGED <<warnings, rootIdx>>
    /\ UNCHANGED <<fsVars, sortVars>>

\* one iteration of printTree's loop over the entries
Entry ==
    /\ pc = "walk"
    /\ Top.i <= Len(Top.entries)
    /\ LET isLast == Top.i = Len(Top.entries)
           listed == Top.entries[Top.i]
           r == resolveEntry(Top.path, listed, opts)
       IN /\ out' = Append(out,
                printNode(r.entry.name, r.entry, opts,
                          linePrefixOf(Top.prefix, isLast), FALSE,
                          r.linkTarget, r.entryIsSymlink,
                          Append(Top.path, listed.name)))
          /\ IF r.entry.kind = "dir"
             THEN LET h == printTreeHead(r.entryPath, opts)
                  IN IF h.err THEN childFailed(r.entryPath)
                     ELSE IF Len(stack) >= MaxDepth
                     THEN /\ pc' = "overflow"
                          /\ UNCHANGED <<stack, warnings, rootIdx>>
                     ELSE /\ stack' = Append(stack,
                                Frame(r.entryPath, newPrefixOf(Top.prefix, isLast),
                                      h.entries))
                          /\ UNCHANGED <<pc, warnings, rootIdx>>
             ELSE /\ stack' = [stack EXCEPT ![Len(stack)].i = Top.i + 1]
                  /\ UNCHANGED <<pc, warnings, rootIdx>>
    /\ UNCHANGED <<fsVars, sortVars>>

\* printTree's loop is over: return nil
Return ==
    /\ pc = "walk"
    /\ Top.i > Len(Top.entries)
    /\ IF Len(stack) = 1
       THEN /\ stack' = <<>>
            /\ pc' = "main"
            /\ rootIdx' = rootIdx + 1
       ELSE /\ stack' = [Front(stack) EXCEPT ![Len(stack) - 1].i = @ + 1]
            /\ UNCHANGED <<pc, rootIdx>>
    /\ UNCHANGED <<out, warnings, fsVars, sortVars>>

\* main returns after the last root
Exit ==
    /\ pc = "main"
    /\ rootIdx > Len(roots)
    /\ pc' = "done"
    /\ UNCHANGED <<rootIdx, stack, out, warnings, fsVars, sortVars>>

Next == MainRoot \/ Entry \/ Return \/ Exit

Spec == Init /\ [][Next]_vars

----------------------------------------------------------------------------
(* Claims about the directory reader (SpecSort) *)

Ordered(entries, reverse) ==
    \A i \in 1..(Len(entries) - 1) :
        IF reverse
        THEN ~StrLess(ToLower(entries[i].name), ToLower(entries[i + 1].name))
        ELSE ~StrLess(ToLower(entries[i + 1].name), ToLower(entries[i].name))

NoDuplicates(entries) ==
    \A i, j \in 1..Len(entries) : i # j => entries[i] # entries[j]

Visible(hidden) ==
    {e \in Range(sListing) : hidden \/ ~HasPrefixDot(e.name)}

\* C1: for either value of reverse, readDir returns a permutation of the
\* entries that passed the hidden filter (none lost, none duplicated) whose
\* adjacent pairs are ordered by lower-cased name: non-decreasing without
\* reverse, non-increasing with it.
C1_SortedPermutation ==
    \A reverse \in BOOLEAN :
        sResult[reverse].done =>
            LET res == sResult[reverse].entries
            IN /\ Range(res) = Visible(sHidden)
               /\ Len(res) = Cardinality(Visible(sHidden))
               /\ NoDuplicates(res)
               /\ Ordered(res, reverse)

\* a listing of three entries, two of them differing in case only, was sorted
\* both ways
C1_Witness ==
    /\ sResult[TRUE].done /\ sResult[FALSE].done
    /\ Len(sResult[TRUE].entries) = 3
    /\ \E i, j \in 1..3 : sListing[i].name = <<66>> /\ sListing[j].name = <<97>>
                          /\ i < j

\* C2: with showHidden false readDir returns exactly the entries whose names
\* do not start with '.', with showHidden true every entry; nothing else is
\* dropped.
C2_HiddenFilter ==
    \A reverse \in BOOLEAN :
        sResult[reverse].done =>
            /\ Range(sResult[reverse].entries) = Visible(sHidden)
            /\ Len(sResult[reverse].entries) = Cardinality(Visible(sHidden))

\* a listing with a dotfile and a name with a dot inside was read, hidden off
C2_Witness ==
    /\ ~sHidden
    /\ sResult[FALSE].done
    /\ \E e \in Range(sListing) : e.name = <<46, 104>>
    /\ \E e \in Range(sListing) : e.name = <<98, 46>>
    /\ Len(sResult[FALSE].entries) = Len(sListing) - 1

\* C3: sorting is idempotent: quickSort with readDir's comparator on a result
\* of readDir yields the same sequence, entry for entry.
C3_Idempotent ==
    \A reverse \in BOOLEAN :
        sAgain[reverse].done => sAgain[reverse].entries = sResult[reverse].entries

\* C4: the ascending result reversed is, entry for entry, the result with
\* reverse set.
C4_ReverseOfSort ==
    (sResult[FALSE].done /\ sResult[TRUE].done) =>
        Reverse(sResult[FALSE].entries) = sResult[TRUE].entries

----------------------------------------------------------------------------
(* Reading the output back: the tree that the printed lines draw *)

IsTree(l) == l.kind \in {"root", "entry"}
Depth(l) == Len(l.prefix)

\* the line under which line k hangs: the nearest earlier line of the same
\* tree that is one level up (0: there is none)
RECURSIVE ParentFrom(_, _)
ParentFrom(k, j) ==
    IF j = 0 \/ out[k].kind # "entry" THEN 0
    ELSE IF ~IsTree(out[j]) THEN 0
    ELSE IF Depth(out[j]) = Depth(out[k]) - 1 THEN j
    ELSE IF out[j].kind = "root" THEN 0
    ELSE ParentFrom(k, j - 1)

\* the lines of the latest tree: from the last root line written to the
\* end of the output.  Every tree is the latest one from its root line
\* until main writes the next root's header, so what holds of the latest
\* tree in every state holds of every tree printed.
RECURSIVE LastRootFrom(_)
LastRootFrom(j) ==
    IF j = 0 THEN 0 ELSE IF out[j].kind = "root" THEN j ELSE LastRootFrom(j - 1)

RECURSIVE TreeEndFrom(_)
TreeEndFrom(j) ==
    IF j < Len(out) /\ out[j + 1].kind = "entry" THEN TreeEndFrom(j + 1) ELSE j

Listing ==
    LET r == LastRootFrom(Len(out))
    IN IF r = 0 THEN {} ELSE r..TreeEndFrom(r)

Parents == [k \in Listing |-> ParentFrom(k, k - 1)]

\* the lines hanging under line p, in output order
RECURSIVE ChildrenFrom(_, _, _)
ChildrenFrom(par, p, j) ==
    IF j > Len(out) \/ out[j].kind # "entry" \/ Depth(out[j]) <= Depth(out[p])
    THEN <<>>
    ELSE IF par[j] = p THEN <<j>> \o ChildrenFrom(par, p, j + 1)
    ELSE ChildrenFrom(par, p, j + 1)

\* the walk has left the subtree of line p
Closed(p) ==
    \/ pc \in {"main", "done"}
    \/ \E j \in (p + 1)..Len(out) :
            out[j].kind # "entry" \/ Depth(out[j]) <= Depth(out[p])

\* a path that printTree cannot list (the roots and the walk's paths are
\* never symlinks themselves)
Unlistable(path) ==
    path \notin Nodes \/ path \in unreadable \/ path \notin Dirs

\* the names a listing of path has to show: those of the nodes in it, the
\* dotfiles only with -a; none if path cannot be listed
VisibleNames(path) ==
    IF Unlistable(path) THEN {}
    ELSE {Last(q) : q \in {n \in Nodes : /\ Len(n) = Len(path) + 1
                                         /\ Front(n) = path
                                         /\ (opts.showHidden \/ ~HasPrefixDot(Last(n)))}}

\* the lines under line p are the listing of the directory p shows: each
\* is an entry of that directory, none is missing, none is there twice
ListingComplete(par, p) ==
    LET ch == ChildrenFrom(par, p, p + 1)
    IN /\ \A i \in 1..Len(ch) : Front(out[ch[i]].dirent) = out[p].info
       /\ {Last(out[ch[i]].dirent) : i \in 1..Len(ch)} = VisibleNames(out[p].info)
       /\ Len(ch) = Cardinality(VisibleNames(out[p].info))

KeyOrdered(a, b) ==
    IF opts.reverse THEN ~StrLess(ToLower(a), ToLower(b))
    ELSE ~StrLess(ToLower(b), ToLower(a))

\* the roots main is through with
Processed == rootIdx - 1

\* the header lines main wrote, and after each the tree lines up to the next
RECURSIVE Headers(_)
Headers(n) ==
    IF n = 0 THEN [at |-> <<>>, trees |-> <<>>]
    ELSE LET s == Headers(n - 1)
         IN IF out[n].kind = "header"
            THEN [at |-> Append(s.at, n), trees |-> Append(s.trees, <<>>)]
            ELSE IF IsTree(out[n]) /\ s.at # <<>>
            THEN [s EXCEPT !.trees[Len(s.trees)] = Append(@, n)]
            ELSE s

RECURSIVE FailedRoots(_)
FailedRoots(n) ==
    IF n = 0 THEN <<>>
    ELSE FailedRoots(n - 1) \o
         (IF Unlistable(roots[n]) THEN <<roots[n]>> ELSE <<>>)

RECURSIVE MainWarnings(_)
MainWarnings(n) ==
    IF n = 0 THEN <<>>
    ELSE MainWarnings(n - 1) \o
         (IF warnings[n].by = "main" THEN <<warnings[n].path>> ELSE <<>>)

----------------------------------------------------------------------------
(* Claims about the walk (Spec) *)

\* C5: the line of the last child at a level is the parent's prefix followed
\* by the branch glyph, the line of every other child the parent's prefix
\* followed by the tee glyph; the prefix of a directory's children is the
\* directory's own prefix extended by three spaces if the directory was a
\* last child and by the pipe glyph otherwise; a root line has no prefix.
C5_Glyphs ==
    \A par \in {Parents} :
       \A k \in Listing :
        /\ out[k].kind = "root" => out[k].prefix = <<>>
        /\ out[k].kind = "entry" =>
            LET p == par[k]
                glyph == Last(out[k].prefix)
                later == \E j \in Listing : j > k /\ par[j] = p
            IN /\ p # 0
               /\ Front(out[k].prefix) =
                    IF out[p].kind = "root" THEN <<>>
                    ELSE Append(Front(out[p].prefix),
                                IF Last(out[p].prefix) = branch THEN space ELSE pipe)
               /\ glyph \in {branch, tee}
               /\ glyph = branch => ~later
               /\ (glyph = tee /\ Closed(p)) => later

\* a finished listing with children of a non-last and of a last directory
C5_Witness ==
    /\ pc = "done"
    /\ \E k \in 1..Len(out) : out[k].prefix = <<pipe, tee>>
    /\ \E k \in 1..Len(out) : out[k].prefix = <<pipe, branch>>
    /\ \E k \in 1..Len(out) : out[k].prefix = <<space, branch>>

\* the structure of a pre-order walk: every tree starts with its root line,
\* a line one level deeper follows only a directory's line or a line of that
\* directory's subtree and is an entry of that directory, and once the walk
\* has left a directory the lines under it are its whole listing
PreOrder(par) ==
    \A k \in Listing :
        /\ out[k].kind = "entry" =>
            /\ par[k] # 0
            /\ out[par[k]].style = "dir"
            /\ Front(out[k].dirent) = out[par[k]].info
        /\ (IsTree(out[k]) /\ Closed(k)) => ListingComplete(par, k)

\* C6 as stated: a depth-first pre-order walk in which the names shown for
\* the siblings at every level are in case-insensitive ascending order,
\* descending with -r.
C6_PreOrderShownNames ==
    \A par \in {Parents} :
       /\ PreOrder(par)
       /\ \A i, j \in Listing :
            (i < j /\ par[i] # 0 /\ par[i] = par[j]) =>
                KeyOrdered(out[i].name, out[j].name)

\* C6 amended: the same walk, the siblings ordered by the names of their
\* directory entries (a symlink dereferenced under -L is shown under its
\* target's name at the place of the link's own name).
C6_PreOrderEntryNames ==
    \A par \in {Parents} :
       /\ PreOrder(par)
       /\ \A i, j \in Listing :
            (i < j /\ par[i] # 0 /\ par[i] = par[j]) =>
                KeyOrdered(Last(out[i].dirent), Last(out[j].dirent))

\* a finished -r -L listing in which the link r/b was shown as its target D,
\* with D's entry under it, next to the directory B
C6_Witness ==
    /\ pc = "done"
    /\ opts.reverse /\ opts.derefLinks /\ opts.showHidden
    /\ \E k \in 1..(Len(out) - 1) :
            /\ out[k].dirent = pLb /\ out[k].info = pD
            /\ out[k + 1].dirent = pF
    /\ \E k \in 1..Len(out) : out[k].dirent = pC

\* C7: with --no-symlink, whatever the other flags, no line shows a symlink's
\* target, no symlink's line carries its target's metadata, and no line
\* hangs under a symlink's line.
C7_NoSymlink ==
    opts.noSymlink =>
        \A par \in {Parents} :
           \A k \in Listing :
            out[k].kind = "entry" =>
                /\ out[k].arrow = <<>>
                /\ out[k].info = out[k].dirent
                /\ out[par[k]].dirent \notin Links

\* C8: with several roots, every root main is through with has its header
\* in command-line order; a root that cannot be listed has no tree line and
\* exactly one warning of main, every other root has its tree; main ends
\* only after the last root.
C8_RootsIsolated ==
    Len(roots) > 1 =>
        \A hs \in {Headers(Len(out))} :
           /\ MainWarnings(Len(warnings)) = FailedRoots(Processed)
           /\ pc = "done" => Processed = Len(roots)
           /\ Len(hs.at) >= Processed
           /\ \A n \in 1..Processed :
                /\ out[hs.at[n]].name = roots[n]
                /\ n > 1 => out[hs.at[n] - 1].kind = "blank"
                /\ IF Unlistable(roots[n])
                   THEN hs.trees[n] = <<>>
                   ELSE /\ hs.trees[n] # <<>>
                        /\ out[hs.trees[n][1]].kind = "root"
                        /\ out[hs.trees[n][1]].dirent = roots[n]
                        /\ \A i \in 2..Len(hs.trees[n]) :
                                out[hs.trees[n][i]].kind = "entry"

\* main is done with a missing root, the tree r and an unlistable root
C8_Witness ==
    /\ pc = "done"
    /\ pB \in unreadable
    /\ roots \in {<<pM, pR>>, <<pR, pB>>}
    /\ Len(warnings) >= 2
    /\ \E k \in 1..Len(out) : out[k].dirent = pD

\* C9: when listing a subdirectory fails, a warning of printTree names it,
\* no line hangs under its line, the listing of the directory it is in is
\* complete once the walk has left that directory, and the calls around it
\* return no error: main warns about the roots it cannot list and no others.
C9_SubdirFailure ==
    \A par \in {Parents} :
       /\ MainWarnings(Len(warnings)) = FailedRoots(Processed)
       /\ \A k \in Listing :
            (out[k].kind = "entry" /\ out[k].style = "dir"
                /\ Unlistable(out[k].info)) =>
                /\ \E w \in 1..Len(warnings) :
                        warnings[w] = [by |-> "printTree", path |-> out[k].info]
                /\ ChildrenFrom(par, k, k + 1) = <<>>
                /\ Closed(par[k]) => ListingComplete(par, par[k])

\* the listing of r is finished, B could not be listed and D follows it
C9_Witness ==
    /\ pc = "done"
    /\ roots = <<pR>>
    /\ pB \in unreadable
    /\ \E k \in 1..(Len(out) - 1) :
            /\ out[k].dirent = pB
            /\ \E j \in (k + 1)..Len(out) : out[j].dirent = pD
    /\ \E j \in 1..Len(out) : out[j].dirent = pF
    /\ warnings = <<[by |-> "printTree", path |-> pB]>>

\* C10: the walk terminates on every finite filesystem.  The filesystem does
\* not change and the walk has no memory, so a directory entered while a
\* call on it is still active is entered again and again: the walk ends if
\* and only if no directory is twice among the active calls, and it never
\* runs into the limit of the call stack.
C10_Terminates ==
    /\ pc # "overflow"
    /\ \A i, j \in 1..Len(stack) : i # j => stack[i].path # stack[j].path

====
